---------------------------- MODULE Spec2Model ----------------------------
(***************************************************************************)
(* Grover's search for alternating bit strings                             *)
(* (GroverSearch_AlternatingBits.ipynb).                                   *)
(*                                                                         *)
(* The Q# operations AlternatingBitStringOracle, Diffusion and Grovers are *)
(* modelled gate by gate on an exact state vector; the Python function     *)
(* plot_job_results is modelled statement by statement.                    *)
(*                                                                         *)
(* State vector.  A register of qs qubits is a function                    *)
(*     amp : 0 .. 2^qs - 1 -> Int      together with a scale  k : Nat,     *)
(* meaning the amplitude of basis state |y> is amp[y] / sqrt(2)^k.  Qubit  *)
(* q is bit q of the index y (qs[0] is the least significant bit).  Every  *)
(* gate used by the notebook (H, X, CNOT, Controlled Z) maps such vectors  *)
(* to such vectors, so the arithmetic is exact integer arithmetic.         *)
(***************************************************************************)
EXTENDS Integers, Sequences, FiniteSets

\* ------------------------------------------------------------------ bounds
\* Largest register length N tried.
MaxN == 4
\* Largest number of Grover rounds tried (iterations ranges over -1 .. MaxIter).
MaxIter == 2
\* Longest bit string in a histogram key tried.
MaxKeyBits == 3
\* Largest number of histogram entries tried.
MaxKeys == 3

VARIABLES
    \* ---- Q# side (Grovers, AlternatingBitStringOracle, Diffusion)
    N,          \* Grovers' parameter N
    iterations, \* Grovers' parameter iterations
    qs,         \* Length(qs): the number of qubits of the register
    amp,        \* the register's amplitudes (numerators)
    k,          \* the register's scale: amplitudes are amp[y] / sqrt(2)^k
    pc,         \* position in the Q# program
    i,          \* Grovers' loop variable  (for i in 1 .. iterations)
    j,          \* the loop variable of the operation being executed
    result,     \* the Result[] being built by ForEach(M, qs)
    err,        \* the runtime failure that ended the program, "" when none
    x0,         \* the basis state the oracle was started on (oracle runs only)
    trace,      \* history: the calls Grovers has made so far, in order
    ampBefore,  \* history: amp at the start of the current round
    kBefore     \* history: k at the start of the current round

qvars == <<N, iterations, qs, amp, k, pc, i, j, result, err, x0, trace,
           ampBefore, kBefore>>

\* ---- Python side (plot_job_results)
VARIABLES
    output,             \* the job's histogram: <<key, frequency>> in dict order
    printed,            \* whether print(output) has run
    keys,               \* the list keys
    keyLen,             \* keyLen
    firstBitString,     \* firstBitString
    secondBitString,    \* secondBitString
    outputFreq,         \* outputFreq
    firstBitStringLoc,  \* firstBitStringLoc
    secondBitStringLoc, \* secondBitStringLoc
    idx,                \* the loop variable i of  for i in range(keyLen)
    ppc,                \* position in plot_job_results
    exc,                \* the exception that left plot_job_results, "" when none
    plotted             \* the matplotlib calls made so far, in order

pvars == <<output, printed, keys, keyLen, firstBitString, secondBitString,
           outputFreq, firstBitStringLoc, secondBitStringLoc, idx, ppc, exc,
           plotted>>

vars == <<qvars, pvars>>

\* ------------------------------------------------------------ bit helpers
RECURSIVE Pow2(_)
Pow2(n) == IF n <= 0 THEN 1 ELSE 2 * Pow2(n - 1)

\* Bit q of the basis-state index y: the value of qubit qs[q].
Bit(y, q) == (y \div Pow2(q)) % 2

\* y with bit q flipped.
Flip(y, q) == IF Bit(y, q) = 0 THEN y + Pow2(q) ELSE y - Pow2(q)

Min(a, b) == IF a <= b THEN a ELSE b

Max(a, b) == IF a >= b THEN a ELSE b

\* The basis states of an n-qubit register.
Basis(n) == 0 .. (Pow2(n) - 1)

\* The bit string x[0] x[1] ... x[n-1] of basis state y, as a sequence
\* (x[i] of the notebook is Bits(y, n)[i + 1]).
Bits(y, n) == [q \in 1 .. n |-> Bit(y, q - 1)]

\* f of the notebook: 1 exactly when no pair of adjacent bits has the same
\* value.
f(x) == \A p \in 2 .. Len(x) : x[p] # x[p - 1]

\* --------------------------------------------------------------- the gates
\* |0...0> on n fresh qubits.
ZeroState(n) == [y \in Basis(n) |-> IF y = 0 THEN 1 ELSE 0]

\* Divide out common factors of 2 = sqrt(2)^2 so that the pair (amp, k) is
\* the unique smallest representation of the state.
RECURSIVE Norm(_, _)
Norm(a, kk) ==
    IF kk >= 2 /\ \A y \in DOMAIN a : a[y] % 2 = 0
    THEN Norm([y \in DOMAIN a |-> a[y] \div 2], kk - 2)
    ELSE [a |-> a, k |-> kk]

\* X as a bug would have it: the gate left out.
ApplyXMissing(a, q) == a

\* X(qs[q]).
ApplyX(a, q) == [y \in DOMAIN a |-> a[Flip(y, q)]]

\* CNOT(qs[c], qs[t]): flips the target where the control is 1.
ApplyCNOT(a, c, t) ==
    [y \in DOMAIN a |-> IF Bit(y, c) = 1 THEN a[Flip(y, t)] ELSE a[y]]

\* H(qs[q]): numerators only; the caller adds 1 to the scale.
ApplyH(a, q) ==
    [y \in DOMAIN a |->
        IF Bit(y, q) = 0 THEN a[y] + a[Flip(y, q)] ELSE a[Flip(y, q)] - a[y]]

\* Controlled Z(controls, target): multiplies by -1 the basis states in which
\* every control and the target are 1.  With no controls this is Z(target).
ApplyCZ(a, ctls, tgt) ==
    [y \in DOMAIN a |->
        IF Bit(y, tgt) = 1 /\ \A c \in ctls : Bit(y, c) = 1
        THEN 0 - a[y] ELSE a[y]]

\* M(qs[q]) with outcome b: the projection on bit q = b (not renormalised;
\* only the support and the signs matter after a measurement).
Project(a, q, b) == [y \in DOMAIN a |-> IF Bit(y, q) = b THEN a[y] ELSE 0]

\* Whether M(qs[q]) can produce b: some basis state with bit q = b has a
\* non-zero amplitude.
CanMeasure(a, q, b) == \E y \in DOMAIN a : Bit(y, q) = b /\ a[y] # 0

\* Most(qs) as qubit indices: every element except the last.
MostOf(n) == 0 .. (n - 2)

\* Tail(qs) as a qubit index: the last element.
TailOf(n) == n - 1

\* A Q# runtime failure: the exception propagates out of every operation.
Fail(e) ==
    /\ pc' = "failed"
    /\ err' = e
    /\ UNCHANGED <<pvars, N, iterations, qs, amp, k, i, j, result, x0, trace,
                   ampBefore, kBefore>>

\* ------------------------------------------- AlternatingBitStringOracle(qs)
\* within { for i in 1 .. Length(qs) - 1 { CNOT(qs[i], qs[i - 1]); } }
OracleWithin ==
    /\ pc = "o_within"
    /\ j <= qs - 1
    /\ amp' = ApplyCNOT(amp, j, j - 1)
    /\ j' = j + 1
    /\ UNCHANGED <<pvars, N, iterations, qs, k, pc, i, result, err, x0, trace,
                   ampBefore, kBefore>>

OracleWithinDone ==
    /\ pc = "o_within"
    /\ j > qs - 1
    /\ pc' = "o_apply"
    /\ UNCHANGED <<pvars, N, iterations, qs, amp, k, i, j, result, err, x0, trace,
                   ampBefore, kBefore>>

\* apply { Controlled Z(qs[0 .. Length(qs) - 3], qs[Length(qs) - 2]); }
\* The slice of an empty range is the empty array; the item access
\* qs[Length(qs) - 2] is out of range when Length(qs) < 2.
OracleApply ==
    /\ pc = "o_apply"
    /\ IF qs - 2 < 0
       THEN Fail("IndexOutOfRange")
       ELSE /\ amp' = ApplyCZ(amp, 0 .. (qs - 3), qs - 2)
            /\ pc' = "o_adjoint"
            /\ j' = qs - 1
            /\ UNCHANGED <<pvars, N, iterations, qs, k, i, result, err, x0, trace,
                           ampBefore, kBefore>>

\* The adjoint of the within block: the same CNOTs in reverse order.
OracleAdjoint ==
    /\ pc = "o_adjoint"
    /\ j >= 1
    /\ amp' = ApplyCNOT(amp, j, j - 1)
    /\ j' = j - 1
    /\ UNCHANGED <<pvars, N, iterations, qs, k, pc, i, result, err, x0, trace,
                   ampBefore, kBefore>>

OracleReturn ==
    /\ pc = "o_adjoint"
    /\ j < 1
    /\ pc' = "o_ret"
    /\ UNCHANGED <<pvars, N, iterations, qs, amp, k, i, j, result, err, x0, trace,
                   ampBefore, kBefore>>

\* ------------------------------------------------------------ Diffusion(qs)
\* within { ApplyToEachA(H, qs); ... }
DiffusionWithinH ==
    /\ pc = "d_h"
    /\ IF j < qs
       THEN /\ amp' = Norm(ApplyH(amp, j), k + 1).a
            /\ k' = Norm(ApplyH(amp, j), k + 1).k
            /\ j' = j + 1
            /\ pc' = pc
       ELSE /\ pc' = "d_x"
            /\ j' = 0
            /\ UNCHANGED <<amp, k>>
    /\ UNCHANGED <<pvars, N, iterations, qs, i, result, err, x0, trace,
                   ampBefore, kBefore>>

\* within { ...; ApplyToEachA(X, qs); }
DiffusionWithinX ==
    /\ pc = "d_x"
    /\ IF j < qs
       THEN /\ amp' = ApplyX(amp, j)
            /\ j' = j + 1
            /\ pc' = pc
       ELSE /\ pc' = "d_apply"
            /\ UNCHANGED <<amp, j>>
    /\ UNCHANGED <<pvars, N, iterations, qs, k, i, result, err, x0, trace,
                   ampBefore, kBefore>>

\* apply { Controlled Z(Most(qs), Tail(qs)); }   Tail fails on an empty array.
DiffusionApply ==
    /\ pc = "d_apply"
    /\ IF qs = 0
       THEN Fail("EmptyArray")
       ELSE /\ amp' = ApplyCZ(amp, MostOf(qs), TailOf(qs))
            /\ pc' = "d_ax"
            /\ j' = qs - 1
            /\ UNCHANGED <<pvars, N, iterations, qs, k, i, result, err, x0, trace,
                           ampBefore, kBefore>>

\* The adjoint of the within block, last statement first:
\* Adjoint ApplyToEachA(X, qs), last qubit first.
DiffusionAdjointX ==
    /\ pc = "d_ax"
    /\ IF j >= 0
       THEN /\ amp' = ApplyX(amp, j)
            /\ j' = j - 1
            /\ pc' = pc
       ELSE /\ pc' = "d_ah"
            /\ j' = qs - 1
            /\ UNCHANGED amp
    /\ UNCHANGED <<pvars, N, iterations, qs, k, i, result, err, x0, trace,
                   ampBefore, kBefore>>

\* Adjoint ApplyToEachA(H, qs), last qubit first; then Diffusion returns.
DiffusionAdjointH ==
    /\ pc = "d_ah"
    /\ IF j >= 0
       THEN /\ amp' = Norm(ApplyH(amp, j), k + 1).a
            /\ k' = Norm(ApplyH(amp, j), k + 1).k
            /\ j' = j - 1
            /\ pc' = pc
       ELSE /\ pc' = "d_ret"
            /\ UNCHANGED <<amp, k, j>>
    /\ UNCHANGED <<pvars, N, iterations, qs, i, result, err, x0, trace,
                   ampBefore, kBefore>>

\* ------------------------------------------------- Grovers(iterations, N)
\* use qs = Qubit[N];
GroversUse ==
    /\ pc = "use"
    /\ qs' = N
    /\ amp' = ZeroState(N)
    /\ k' = 0
    /\ trace' = Append(trace, <<"use", N>>)
    /\ pc' = "h"
    /\ j' = 0
    /\ UNCHANGED <<pvars, N, iterations, i, result, err, x0, ampBefore, kBefore>>

\* ApplyToEach(H, qs);  then the for loop starts with i = 1.
GroversH ==
    /\ pc = "h"
    /\ IF j < qs
       THEN /\ amp' = Norm(ApplyH(amp, j), k + 1).a
            /\ k' = Norm(ApplyH(amp, j), k + 1).k
            /\ trace' = Append(trace, <<"H", j>>)
            /\ j' = j + 1
            /\ UNCHANGED <<pc, i>>
       ELSE /\ pc' = "loop"
            /\ i' = 1
            /\ UNCHANGED <<amp, k, trace, j>>
    /\ UNCHANGED <<pvars, N, iterations, qs, result, err, x0, ampBefore, kBefore>>

\* for i in 1 .. iterations { AlternatingBitStringOracle(qs); ...
GroversCallOracle ==
    /\ pc = "loop"
    /\ i <= iterations
    /\ trace' = Append(trace, <<"AlternatingBitStringOracle", i>>)
    /\ ampBefore' = amp
    /\ kBefore' = k
    /\ pc' = "o_within"
    /\ j' = 1
    /\ UNCHANGED <<pvars, N, iterations, qs, amp, k, i, result, err, x0>>

\* ... Diffusion(qs); ...
GroversCallDiffusion ==
    /\ pc = "o_ret"
    /\ trace' = Append(trace, <<"Diffusion", i>>)
    /\ pc' = "d_h"
    /\ j' = 0
    /\ UNCHANGED <<pvars, N, iterations, qs, amp, k, i, result, err, x0,
                   ampBefore, kBefore>>

\* ... }  the next value of i.
GroversNextRound ==
    /\ pc = "d_ret"
    /\ i' = i + 1
    /\ pc' = "loop"
    /\ UNCHANGED <<pvars, N, iterations, qs, amp, k, j, result, err, x0, trace,
                   ampBefore, kBefore>>

GroversLoopExit ==
    /\ pc = "loop"
    /\ i > iterations
    /\ pc' = "m"
    /\ j' = 0
    /\ UNCHANGED <<pvars, N, iterations, qs, amp, k, i, result, err, x0, trace,
                   ampBefore, kBefore>>

\* return ForEach(M, qs);   M on each qubit in order, any possible outcome.
GroversMeasure ==
    /\ pc = "m"
    /\ j < qs
    /\ \E b \in {0, 1} :
          /\ CanMeasure(amp, j, b)
          /\ amp' = Project(amp, j, b)
          /\ result' = Append(result, b)
    /\ trace' = Append(trace, <<"M", j>>)
    /\ j' = j + 1
    /\ UNCHANGED <<pvars, N, iterations, qs, k, pc, i, err, x0, ampBefore, kBefore>>

GroversReturn ==
    /\ pc = "m"
    /\ j >= qs
    /\ pc' = "done"
    /\ UNCHANGED <<pvars, N, iterations, qs, amp, k, i, j, result, err, x0, trace,
                   ampBefore, kBefore>>

\* plot_job_results is not running.
PlotIdle ==
    /\ output = <<>>
    /\ printed = FALSE
    /\ keys = <<>>
    /\ keyLen = 0
    /\ firstBitString = <<>>
    /\ secondBitString = <<>>
    /\ outputFreq = <<>>
    /\ firstBitStringLoc = 0
    /\ secondBitStringLoc = 0
    /\ idx = 0
    /\ ppc = "idle"
    /\ exc = ""
    /\ plotted = <<>>

\* Grovers.simulate(iterations = ..., N = ...): nothing is allocated yet.
Init ==
    /\ N \in 0 .. MaxN
    /\ iterations \in -1 .. MaxIter
    /\ qs = 0
    /\ amp = ZeroState(0)
    /\ k = 0
    /\ pc = "use"
    /\ i = 0
    /\ j = 0
    /\ result = <<>>
    /\ err = ""
    /\ x0 = 0
    /\ trace = <<>>
    /\ ampBefore = ZeroState(0)
    /\ kBefore = 0
    /\ PlotIdle

Next ==
    \/ GroversUse
    \/ GroversH
    \/ GroversCallOracle
    \/ OracleWithin
    \/ OracleWithinDone
    \/ OracleApply
    \/ OracleAdjoint
    \/ OracleReturn
    \/ GroversCallDiffusion
    \/ DiffusionWithinH
    \/ DiffusionWithinX
    \/ DiffusionApply
    \/ DiffusionAdjointX
    \/ DiffusionAdjointH
    \/ GroversNextRound
    \/ GroversLoopExit
    \/ GroversMeasure
    \/ GroversReturn

Spec == Init /\ [][Next]_vars

\* ------------------------------------------ the oracle on one basis state
\* AlternatingBitStringOracle(qs) entered with the register in basis state
\* |x0>, for every register length and every basis state.
BasisVector(n, x) == [y \in Basis(n) |-> IF y = x THEN 1 ELSE 0]

InitOracle ==
    /\ N \in 0 .. MaxN
    /\ iterations = 0
    /\ qs = N
    /\ x0 \in Basis(N)
    /\ amp = BasisVector(N, x0)
    /\ k = 0
    /\ pc = "o_within"
    /\ i = 0
    /\ j = 1
    /\ result = <<>>
    /\ err = ""
    /\ trace = <<>>
    /\ ampBefore = ZeroState(0)
    /\ kBefore = 0
    /\ PlotIdle

NextOracle ==
    \/ OracleWithin
    \/ OracleWithinDone
    \/ OracleApply
    \/ OracleAdjoint
    \/ OracleReturn

SpecOracle == InitOracle /\ [][NextOracle]_vars

\* -------------------------------------------- plot_job_results(id, iter, sim)
\* Strings are sequences of one-character strings.

\* str(d) for a digit d.
Str(d) == CASE d = 0 -> "0" [] d = 1 -> "1" [] d = 2 -> "2"

\* The histogram key of a Result[] with the given bits: "[b0,b1,...]".
RECURSIVE Join(_)
Join(bits) ==
    IF Len(bits) = 0 THEN <<>>
    ELSE IF Len(bits) = 1 THEN <<Str(bits[1])>>
    ELSE <<Str(bits[1]), ",">> \o Join(SubSeq(bits, 2, Len(bits)))

ResultKey(bits) == <<"[">> \o Join(bits) \o <<"]">>

\* key.replace(",", "")
StripCommas(key) == SelectSeq(key, LAMBDA c : c # ",")

\* "[{}]".format(s)
Bracket(s) == <<"[">> \o s \o <<"]">>

\* The digit of firstBitString as a bug would have it: str(n%2), the digit
\* of secondBitString.
FirstDigitSameParity(n) == Str(n % 2)

\* The digit appended to firstBitString in iteration n: str((n+1)%2).
FirstDigit(n) == Str((n + 1) % 2)

\* The digit appended to secondBitString in iteration n: str(n%2).
SecondDigit(n) == Str(n % 2)

\* Whether s is an element of the list.
Has(list, s) == \E p \in 1 .. Len(list) : list[p] = s

\* list.index(s) as a bug would have it: -1 when s is not in the list (the
\* behaviour of str.find), no exception.
IndexOrMinusOne(list, s) ==
    IF Has(list, s)
    THEN [raised |-> FALSE,
          value |-> (CHOOSE p \in 1 .. Len(list) :
                        list[p] = s /\ \A r \in 1 .. (p - 1) : list[r] # s) - 1]
    ELSE [raised |-> FALSE, value |-> 0 - 1]

\* list.index(s): the first position holding s (0-based); raises ValueError
\* when s is not in the list.
Index(list, s) ==
    IF Has(list, s)
    THEN [raised |-> FALSE,
          value |-> (CHOOSE p \in 1 .. Len(list) :
                        list[p] = s /\ \A r \in 1 .. (p - 1) : list[r] # s) - 1]
    ELSE [raised |-> TRUE, value |-> 0 - 1]

\* list[a:b] and list[a:] for 0 <= a, b.
Slice(list, a, b) == SubSeq(list, a + 1, Min(b, Len(list)))

SliceFrom(list, a) == SubSeq(list, a + 1, Len(list))

\* An exception leaves plot_job_results: nothing catches it.
Raise(e) ==
    /\ ppc' = "raised"
    /\ exc' = e
    /\ UNCHANGED <<output, printed, keys, keyLen, firstBitString,
                   secondBitString, outputFreq, firstBitStringLoc,
                   secondBitStringLoc, idx, plotted>>

\* output = qsharp.azure.output(id); print(output); keys = list(output.keys())
PlotFetch ==
    /\ ppc = "fetch"
    /\ printed' = TRUE
    /\ keys' = [p \in 1 .. Len(output) |-> output[p][1]]
    /\ ppc' = "strip"
    /\ UNCHANGED <<qvars, output, keyLen, firstBitString, secondBitString,
                   outputFreq, firstBitStringLoc, secondBitStringLoc, idx,
                   exc, plotted>>

\* keys = [key.replace(",", "") for key in keys]
PlotStrip ==
    /\ ppc = "strip"
    /\ keys' = [p \in 1 .. Len(keys) |-> StripCommas(keys[p])]
    /\ ppc' = "keylen"
    /\ UNCHANGED <<qvars, output, printed, keyLen, firstBitString,
                   secondBitString, outputFreq, firstBitStringLoc,
                   secondBitStringLoc, idx, exc, plotted>>

\* keyLen = len(keys[0]) - 2; firstBitString = ""; secondBitString = ""
PlotKeyLen ==
    /\ ppc = "keylen"
    /\ UNCHANGED qvars
    /\ IF Len(keys) = 0
       THEN Raise("IndexError")
       ELSE /\ keyLen' = Len(keys[1]) - 2
            /\ firstBitString' = <<>>
            /\ secondBitString' = <<>>
            /\ idx' = 0
            /\ ppc' = "build"
            /\ UNCHANGED <<output, printed, keys, outputFreq,
                           firstBitStringLoc, secondBitStringLoc, exc,
                           plotted>>

\* for i in range(keyLen): firstBitString += ...; secondBitString += ...
PlotBuild ==
    /\ ppc = "build"
    /\ idx < keyLen
    /\ firstBitString' = Append(firstBitString, FirstDigit(idx))
    /\ secondBitString' = Append(secondBitString, SecondDigit(idx))
    /\ idx' = idx + 1
    /\ UNCHANGED <<qvars, output, printed, keys, keyLen, outputFreq,
                   firstBitStringLoc, secondBitStringLoc, ppc, exc, plotted>>

\* secondBitString = "[{}]".format(secondBitString); the same for
\* firstBitString; outputFreq = list(output.values())
PlotFormat ==
    /\ ppc = "build"
    /\ idx >= keyLen
    /\ secondBitString' = Bracket(secondBitString)
    /\ firstBitString' = Bracket(firstBitString)
    /\ outputFreq' = [p \in 1 .. Len(output) |-> output[p][2]]
    /\ ppc' = "loc1"
    /\ UNCHANGED <<qvars, output, printed, keys, keyLen, firstBitStringLoc,
                   secondBitStringLoc, idx, exc, plotted>>

\* firstBitStringLoc = min(keys.index(firstBitString),
\*                         keys.index(secondBitString))
PlotFirstLoc ==
    /\ ppc = "loc1"
    /\ UNCHANGED qvars
    /\ IF Index(keys, firstBitString).raised
          \/ Index(keys, secondBitString).raised
       THEN Raise("ValueError")
       ELSE /\ firstBitStringLoc' =
                  Min(Index(keys, firstBitString).value,
                      Index(keys, secondBitString).value)
            /\ ppc' = "loc2"
            /\ UNCHANGED <<output, printed, keys, keyLen, firstBitString,
                           secondBitString, outputFreq, secondBitStringLoc,
                           idx, exc, plotted>>

\* secondBitStringLoc = max(keys.index(firstBitString),
\*                          keys.index(secondBitString))
PlotSecondLoc ==
    /\ ppc = "loc2"
    /\ UNCHANGED qvars
    /\ IF Index(keys, firstBitString).raised
          \/ Index(keys, secondBitString).raised
       THEN Raise("ValueError")
       ELSE /\ secondBitStringLoc' =
                  Max(Index(keys, firstBitString).value,
                      Index(keys, secondBitString).value)
            /\ ppc' = "bars"
            /\ UNCHANGED <<output, printed, keys, keyLen, firstBitString,
                           secondBitString, outputFreq, firstBitStringLoc,
                           idx, exc, plotted>>

\* The five plt.bar calls.
PlotBars ==
    /\ ppc = "bars"
    /\ plotted' = plotted \o
          << <<"bar", Slice(keys, 0, firstBitStringLoc),
                      Slice(outputFreq, 0, firstBitStringLoc), "blue">>,
             <<"bar", keys[firstBitStringLoc + 1],
                      outputFreq[firstBitStringLoc + 1], "red">>,
             <<"bar", Slice(keys, firstBitStringLoc + 1, secondBitStringLoc),
                      Slice(outputFreq, firstBitStringLoc + 1,
                            secondBitStringLoc), "blue">>,
             <<"bar", keys[secondBitStringLoc + 1],
                      outputFreq[secondBitStringLoc + 1], "red">>,
             <<"bar", SliceFrom(keys, secondBitStringLoc + 1),
                      SliceFrom(outputFreq, secondBitStringLoc + 1), "blue">> >>
    /\ ppc' = "title"
    /\ UNCHANGED <<qvars, output, printed, keys, keyLen, firstBitString,
                   secondBitString, outputFreq, firstBitStringLoc,
                   secondBitStringLoc, idx, exc>>

\* plt.xticks(rotation=90); plt.title(...); plt.show()
PlotTitleShow ==
    /\ ppc = "title"
    /\ plotted' = plotted \o
          << <<"xticks", 90>>, <<"title", keyLen>>, <<"show">> >>
    /\ ppc' = "done"
    /\ UNCHANGED <<qvars, output, printed, keys, keyLen, firstBitString,
                   secondBitString, outputFreq, firstBitStringLoc,
                   secondBitStringLoc, idx, exc>>

\* The histograms a job of Grovers(iterations, n) can produce, n <=
\* MaxKeyBits: at most MaxKeys distinct keys, each the text of an n-bit
\* Result[].  The frequencies are never inspected by plot_job_results, only
\* passed on to plt.bar; entry p carries the frequency p, so that the
\* frequencies tell the entries apart.
Histograms(n) ==
    UNION {
        {h \in [1 .. len -> Basis(n)] :
            \A p, r \in 1 .. len : (h[p] = h[r]) => (p = r)}
        : len \in 0 .. MaxKeys }

InitPlot ==
    /\ \E n \in 0 .. MaxKeyBits : \E h \in Histograms(n) :
          output = [p \in 1 .. Len(h) |-> <<ResultKey(Bits(h[p], n)), p>>]
    /\ printed = FALSE
    /\ keys = <<>>
    /\ keyLen = 0
    /\ firstBitString = <<>>
    /\ secondBitString = <<>>
    /\ outputFreq = <<>>
    /\ firstBitStringLoc = 0
    /\ secondBitStringLoc = 0
    /\ idx = 0
    /\ ppc = "fetch"
    /\ exc = ""
    /\ plotted = <<>>
    /\ N = 0
    /\ iterations = 0
    /\ qs = 0
    /\ amp = ZeroState(0)
    /\ k = 0
    /\ pc = "idle"
    /\ i = 0
    /\ j = 0
    /\ result = <<>>
    /\ err = ""
    /\ x0 = 0
    /\ trace = <<>>
    /\ ampBefore = ZeroState(0)
    /\ kBefore = 0

NextPlot ==
    \/ PlotFetch
    \/ PlotStrip
    \/ PlotKeyLen
    \/ PlotBuild
    \/ PlotFormat
    \/ PlotFirstLoc
    \/ PlotSecondLoc
    \/ PlotBars
    \/ PlotTitleShow

SpecPlot == InitPlot /\ [][NextPlot]_vars

\* ---------------------------------------------------------------- claims
\* The basis states of an n-qubit register on which f is 1.
Marked(n) == {y \in Basis(n) : f(Bits(y, n))}

\* The effect of a phase oracle for f on |x>: -|x> if f(x) = 1, |x> otherwise.
PhaseOracle(n, x) ==
    [y \in Basis(n) |->
        IF y # x THEN 0 ELSE IF f(Bits(x, n)) THEN 0 - 1 ELSE 1]

\* C1: AlternatingBitStringOracle is a phase oracle for f on a register of
\* any length N: started on any basis state |x>, it ends (it does not fail)
\* with the register in -|x> when no two adjacent bits of x are equal and in
\* |x> otherwise.
C1_PhaseOracleAnyLength ==
    pc \in {"o_ret", "failed"} =>
        /\ pc = "o_ret"
        /\ k = 0
        /\ amp = PhaseOracle(qs, x0)

\* What holds of the oracle: the same for every register of at least two
\* qubits; on shorter registers the call fails and leaves |x> untouched.
OracleFromTwoQubits ==
    /\ (pc = "o_ret" => qs >= 2 /\ k = 0 /\ amp = PhaseOracle(qs, x0))
    /\ (pc = "failed" =>
            qs < 2 /\ err = "IndexOutOfRange" /\ amp = BasisVector(qs, x0))

\* The basis state the within block computes from x: qubit q - 1 holds
\* x[q] XOR x[q - 1] for 1 <= q <= n - 1, qubit n - 1 holds x[n - 1].
RECURSIVE SumBits(_, _, _)
SumBits(x, n, q) ==
    IF q >= n THEN 0
    ELSE (IF q = n - 1 THEN Bit(x, q) ELSE (Bit(x, q) + Bit(x, q + 1)) % 2)
             * Pow2(q) + SumBits(x, n, q + 1)

XorState(x, n) == SumBits(x, n, 0)

\* Whether all n - 1 stored XOR values of basis state y are 1.
AllXorOne(y, n) == \A q \in 0 .. (n - 2) : Bit(y, q) = 1

\* C6: after the within loop the register holds the XOR values of the
\* original bits (qubit i-1 holds x[i] XOR x[i-1], qubit N-1 holds x[N-1]),
\* and the apply block then (without failing) flips the phase exactly when
\* all N-1 stored XOR values are 1.
C6_ComputeThenFlip ==
    /\ pc = "o_apply" => amp = BasisVector(qs, XorState(x0, qs))
    /\ pc # "failed"
    /\ (pc = "o_adjoint" /\ j = qs - 1) =>
          amp = [y \in Basis(qs) |->
                   IF y # XorState(x0, qs) THEN 0
                   ELSE IF AllXorOne(y, qs) THEN 0 - 1 ELSE 1]

\* What holds of the compute step: the within loop always stores the XOR
\* values, and whenever the apply block completes it has flipped the phase
\* exactly when all of them are 1; the apply block fails when N < 2.
ComputeStepFromTwoQubits ==
    /\ pc = "o_apply" => amp = BasisVector(qs, XorState(x0, qs))
    /\ pc = "failed" => qs < 2
    /\ (pc = "o_adjoint" /\ j = qs - 1) =>
          /\ qs >= 2
          /\ amp = [y \in Basis(qs) |->
                      IF y # XorState(x0, qs) THEN 0
                      ELSE IF AllXorOne(y, qs) THEN 0 - 1 ELSE 1]

\* The sum of the squares of the amplitudes' numerators over the set S.
RECURSIVE SumSq(_, _)
SumSq(a, S) ==
    IF S = {} THEN 0
    ELSE LET y == CHOOSE z \in S : TRUE
         IN  a[y] * a[y] + SumSq(a, S \ {y})

\* Whether the probability of measuring an alternating bit string is
\* strictly greater in state (a1, k1) than in state (a0, k0):
\*     SumSq(a1, Marked) / 2^k1  >  SumSq(a0, Marked) / 2^k0.
MarkedProbGreater(a1, k1, a0, k0) ==
    SumSq(a1, Marked(qs)) * Pow2(k0 - Min(k0, k1))
        > SumSq(a0, Marked(qs)) * Pow2(k1 - Min(k0, k1))

\* C2 as claimed: for every N, every executed round (oracle, then
\* diffusion) leaves the total probability of the alternating bit strings
\* strictly greater than it was before the round.
C2_EveryRoundIncreases ==
    pc = "d_ret" => MarkedProbGreater(amp, k, ampBefore, kBefore)

\* C2 as amended: for N >= 3 the first round leaves the total probability
\* of the alternating bit strings strictly greater than before the round.
C2_FirstRoundIncreases ==
    (pc = "d_ret" /\ i = 1 /\ N >= 3) =>
        MarkedProbGreater(amp, k, ampBefore, kBefore)

C2_Witness ==
    /\ pc = "d_ret"
    /\ i = 1
    /\ N >= 3
    /\ MarkedProbGreater(amp, k, ampBefore, kBefore)

\* Later rounds can lower the probability: a round after which it is
\* strictly smaller than before is reachable (N = 3, round 2: 1 -> 1/4).
SomeRoundDecreases ==
    pc = "d_ret" /\ MarkedProbGreater(ampBefore, kBefore, amp, k)

\* The calls Grovers(it, n) makes when it runs to its end.
ExpectedTrace(n, it) ==
    <<<<"use", n>>>>
    \o [q \in 1 .. n |-> <<"H", q - 1>>]
    \o [p \in 1 .. (IF it <= 0 THEN 0 ELSE 2 * it) |->
           IF p % 2 = 1 THEN <<"AlternatingBitStringOracle", (p + 1) \div 2>>
                        ELSE <<"Diffusion", p \div 2>>]
    \o [q \in 1 .. n |-> <<"M", q - 1>>]

IsPrefix(s, t) == Len(s) <= Len(t) /\ s = SubSeq(t, 1, Len(s))

\* C3: Grovers(iterations, N) allocates N qubits, applies H to every qubit
\* once, runs exactly `iterations` rounds of AlternatingBitStringOracle
\* immediately followed by Diffusion (none when iterations <= 0), and only
\* then measures every qubit once, returning a Result array of length N whose
\* i-th entry is the measurement of qubit i.
C3_FixedOrderAndReturn ==
    pc \in {"done", "failed"} =>
        /\ pc = "done"
        /\ trace = ExpectedTrace(N, iterations)
        /\ Len(result) = N
        /\ \E y \in Basis(N) :
              /\ \A z \in Basis(N) : (amp[z] # 0) <=> (z = y)
              /\ result = Bits(y, N)

\* What holds of Grovers: its calls are always a prefix of the fixed order,
\* a run that returns has made them all, and a run fails only inside the
\* first oracle call, on a register of fewer than two qubits.
GroversOrderUntilFailure ==
    /\ IsPrefix(trace, ExpectedTrace(N, iterations))
    /\ pc = "done" =>
          /\ trace = ExpectedTrace(N, iterations)
          /\ Len(result) = N
          /\ \E y \in Basis(N) :
                /\ \A z \in Basis(N) : (amp[z] # 0) <=> (z = y)
                /\ result = Bits(y, N)
    /\ pc = "failed" =>
          /\ N < 2
          /\ iterations >= 1
          /\ trace = SubSeq(ExpectedTrace(N, iterations), 1, N + 2)

\* The text of a bit string as the keys hold it once the commas are
\* stripped: "[b0b1...]".
BitText(x) == Bracket([p \in 1 .. Len(x) |-> Str(x[p])])

\* All bit strings of length n.
BitStrings(n) == {Bits(y, n) : y \in Basis(n)}

\* The bit strings of length n on which f is 1.
Solutions(n) == {x \in BitStrings(n) : f(x)}

\* Whether plot_job_results has computed keyLen and built both strings.
StringsBuilt ==
    \/ ppc \in {"loc1", "loc2", "bars", "title", "done"}
    \/ ppc = "raised" /\ exc = "ValueError"

Alternating(n, b) == BitText([p \in 1 .. n |-> (b + p - 1) % 2])

\* Whether one of the two alternating bit strings of length keyLen is not
\* among the keys.
AlternatingAbsent ==
    \E b \in {0, 1} : ~Has(keys, Alternating(keyLen, b))

\* C7: when one of the two alternating bit strings of length keyLen is not
\* among the keys, the position lookup raises ValueError, the exception
\* leaves plot_job_results, and no plt call has been made: the run never
\* gets past the first lookup, and nothing is plotted.
C7_AbsentKeyRaisesBeforePlot ==
    [][ /\ (StringsBuilt /\ AlternatingAbsent) =>
              (ppc \in {"loc1", "raised"} /\ plotted = <<>>)
        /\ (StringsBuilt' /\ AlternatingAbsent') =>
              (ppc' \in {"loc1", "raised"} /\ plotted' = <<>>)
        /\ (ppc = "loc1" /\ AlternatingAbsent) =>
              (ppc' = "raised" /\ exc' = "ValueError" /\ plotted' = <<>>)
        /\ (ppc' = "raised" /\ exc' = "ValueError") =>
              (ppc = "loc1" /\ AlternatingAbsent)
      ]_vars

C7_Witness ==
    /\ ppc = "raised"
    /\ exc = "ValueError"
    /\ AlternatingAbsent
    /\ Len(keys) >= 2
    /\ plotted = <<>>

=============================================================================
